---------------------------- MODULE Spec2Model ----------------------------
(***************************************************************************)
(* Model of zc_common/email.py: send_email and emit_microservice_event.    *)
(*                                                                         *)
(* One behaviour is one call.  Init is the moment of the call: the         *)
(* arguments and the process settings are drawn from bounded sets.  The    *)
(* actions are the statements of send_email and emit_microservice_event    *)
(* in program order; every call of an external service (the S3 bucket,     *)
(* the AMQP broker) is appended to the log `calls`, and may fail.          *)
(*                                                                         *)
(* Python strings are sequences of one-character strings, so that          *)
(* str.split, str.format and key equality are computed, not assumed.       *)
(* Python values whose type the code inspects are tagged records.          *)
(***************************************************************************)
EXTENDS Integers, Sequences, FiniteSets, TLC

VARIABLES
    call,                \* the arguments of the call and the settings
    pc,                  \* position in the code
    to, cc, bcc, reply_to,   \* send_email's locals (rebound at lines 127-130)
    email_uuid, bucket, s3_folder_name,
    html_body_key, plaintext_body_key, attachments_keys,
    idx,                 \* position of the for loops (lines 152, 158)
    store,               \* the bucket's objects: key -> content
    calls,               \* log of the calls made to S3 and to the broker
    published,           \* bodies handed to channel.basic_publish
    uuid_count,          \* number of uuid.uuid4() values drawn
    emit_kwargs, task_id, response,   \* emit_microservice_event's locals
    emit_outcome, emit_result,        \* how emit_microservice_event ended
    outcome, result                   \* how the call ended

vars == <<call, pc, to, cc, bcc, reply_to, email_uuid, bucket, s3_folder_name,
          html_body_key, plaintext_body_key, attachments_keys, idx, store,
          calls, published, uuid_count, emit_kwargs, task_id, response,
          emit_outcome, emit_result, outcome, result>>

-----------------------------------------------------------------------------
(* Bounds of the model *)

MaxAtt == 2
MaxFiles == 2

-----------------------------------------------------------------------------
(* Python values *)

PyNone == [tag |-> "none", s |-> <<>>, items |-> <<>>, n |-> 0]
PyStr(chars) == [tag |-> "str", s |-> chars, items |-> <<>>, n |-> 0]
PyList(elems) == [tag |-> "list", s |-> <<>>, items |-> elems, n |-> 0]
PyTuple(elems) == [tag |-> "tuple", s |-> <<>>, items |-> elems, n |-> 0]
PyInt(k) == [tag |-> "int", s |-> <<>>, items |-> <<>>, n |-> k]

\* Python truth value: None, '', [], (), 0 and False are falsy.
Truthy(v) ==
    CASE v.tag = "none" -> FALSE
      [] v.tag = "str" -> Len(v.s) > 0
      [] v.tag = "list" -> Len(v.items) > 0
      [] v.tag = "tuple" -> Len(v.items) > 0
      [] v.tag = "int" -> v.n # 0

\* isinstance(v, six.string_types), isinstance(v, list)
IsString(v) == v.tag = "str"
IsList(v) == v.tag = "list"

\* The truth value of the `attachments` and `files` arguments (None or a list).
ArgTruthy(a) == a.tag = "list" /\ Len(a.entries) > 0

Last(seq) == seq[Len(seq)]

SepIndex(s, sep) == CHOOSE i \in 1..Len(s) :
                        s[i] = sep /\ \A j \in 1..(i - 1) : s[j] # sep

\* str.split(sep) for a one-character separator: ''.split(',') is [''].
RECURSIVE split(_, _)
split(s, sep) ==
    IF \A i \in 1..Len(s) : s[i] # sep
    THEN <<s>>
    ELSE LET i == SepIndex(s, sep)
         IN  <<SubSeq(s, 1, i - 1)>> \o split(SubSeq(s, i + 1, Len(s)), sep)

\* str(uuid): distinct uuids print differently.
UuidDigit(k) == CASE k = 1 -> "1" [] k = 2 -> "2" [] OTHER -> "0"
UuidStr(k) == <<"u", UuidDigit(k)>>

HTML == <<"h", "t", "m", "l">>
PLAINTEXT == <<"p", "l", "a", "i", "n", "t", "e", "x", "t">>
ATTACHMENT == <<"a", "t", "t", "a", "c", "h", "m", "e", "n", "t">>
EMAIL_EVENT_TYPE == <<"s", "e", "n", "d", "_", "e", "m", "a", "i", "l">>

\* date.today().isoformat() and str(int(time.time())): values of the clock.
TodayIso == <<"d">>
NowSeconds == <<"t">>

generate_s3_folder_name(uuid) ==
    TodayIso \o <<"/">> \o NowSeconds \o <<"_">> \o UuidStr(uuid)

generate_s3_content_key(folder, content_type, content_name) ==
    LET content_key == folder \o <<"/">> \o content_type
    IN  IF Len(content_name) > 0
        THEN content_key \o <<"_">> \o content_name
        ELSE content_key

\* upload_string_to_s3 / upload_file_to_s3: the bucket after the call.
upload_string_to_s3(objects, content_key, content) ==
    IF Len(content) > 0 THEN (content_key :> content) @@ objects ELSE objects

\* The bytes of the local file at a path.
FileBytes(path) == <<"@">> \o path

upload_file_to_s3(objects, content_key, filename) ==
    IF Len(filename) > 0
    THEN (content_key :> FileBytes(filename)) @@ objects
    ELSE objects

\* Lines 127-130: a string becomes the list of its comma-separated parts.
Normalize(v) == IF IsString(v) THEN PyList(split(v.s, ",")) ELSE v

\* Line 132
BadRecipient(arg) == Truthy(arg) /\ ~IsList(arg)

\* Line 136
AnyRecipient(a, b, c, d) == Truthy(a) \/ Truthy(b) \/ Truthy(c) \/ Truthy(d)

\* Line 63: `not response`
NotResponse_IsNone(r) == r.tag = "none"

NotResponse(r) == ~Truthy(r)

\* ujson.dumps followed by a JSON parse: a tuple comes back as an array.
JsonValue(v) == IF v.tag = "tuple" THEN PyList(v.items) ELSE v

ujson_dumps(message) ==
    [message EXCEPT !.kwargs = [k \in DOMAIN message.kwargs |->
                                    JsonValue(message.kwargs[k])]]

\* Lines 44-45: {'task_id': task_id} updated with the caller's kwargs.
keyword_args(tid, kwargs) ==
    [k \in {"task_id"} \cup DOMAIN kwargs |->
        IF k \in DOMAIN kwargs THEN kwargs[k] ELSE PyStr(UuidStr(tid))]

\* Lines 47-52
Message(tid, kwargs) ==
    [task |-> "microservice.event",
     id |-> UuidStr(tid),
     args |-> <<EMAIL_EVENT_TYPE>>,
     kwargs |-> keyword_args(tid, kwargs)]

-----------------------------------------------------------------------------
(* Entries of the call log *)

S3Call(op, key, wrote, ok) ==
    [svc |-> "s3", op |-> op, key |-> key, wrote |-> wrote, ok |-> ok]
BrokerCall(op, ok) ==
    [svc |-> "broker", op |-> op, key |-> <<>>, wrote |-> FALSE, ok |-> ok]

-----------------------------------------------------------------------------
(* The arguments a call is made with *)

SeqsUpTo(S, n) == UNION {[1..k -> S] : k \in 0..n}

RecipVals ==
    { PyNone,
      PyStr(<<>>),
      PyStr(<<"a", ",", "b">>),
      PyList(<<>>),
      PyList(<<<<"a">>>>),
      PyTuple(<<>>),
      PyTuple(<<<<"a">>>>),
      PyInt(0) }

BodyVals == { PyNone, PyStr(<<>>), PyStr(<<"x">>) }

\* (filename, content_type, content)
AttVals ==
    { [filename |-> <<"a">>, mimetype |-> <<"m">>, content |-> <<"x">>],
      [filename |-> <<"a">>, mimetype |-> <<"m">>, content |-> <<>>],
      [filename |-> <<"b">>, mimetype |-> <<"m">>, content |-> <<"y">>] }

FileVals == { <<>>, <<"a">>, <<"d", "/", "a">> }

NoneArg == [tag |-> "none", entries |-> <<>>]
ListArg(es) == [tag |-> "list", entries |-> es]

AttArgs(n) == {NoneArg} \cup {ListArg(es) : es \in SeqsUpTo(AttVals, n)}
FileArgs(n) == {NoneArg} \cup {ListArg(es) : es \in SeqsUpTo(FileVals, n)}

\* Keyword arguments of a direct call of emit_microservice_event.
NoKwargs == [k \in {} |-> PyNone]
DirectKwargs ==
    { NoKwargs,
      [user_id |-> PyInt(7)],
      [task_id |-> PyStr(<<"T">>)],
      [task_id |-> PyStr(<<"T">>), to |-> PyTuple(<<<<"a">>>>)] }

\* Calls that exercise recipient validation with every combination of values.
RecipientCalls ==
    { [caller |-> "send_email", creds |-> cr,
       to |-> a, cc |-> b, bcc |-> c, reply_to |-> d,
       html_body |-> PyStr(<<"x">>), plaintext_body |-> PyNone,
       attachments |-> ListArg(<<at>>), files |-> NoneArg,
       kwargs |-> NoKwargs] :
      cr \in BOOLEAN, a \in RecipVals, b \in RecipVals, c \in RecipVals,
      d \in RecipVals, at \in AttVals }

\* Calls that exercise the uploads with every combination of content.
UploadCalls ==
    { [caller |-> "send_email", creds |-> TRUE,
       to |-> a, cc |-> PyNone, bcc |-> PyNone, reply_to |-> PyNone,
       html_body |-> h, plaintext_body |-> p,
       attachments |-> at, files |-> f,
       kwargs |-> NoKwargs] :
      a \in {PyNone, PyStr(<<"a", ",", "b">>)},
      h \in BodyVals, p \in BodyVals,
      at \in AttArgs(MaxAtt), f \in FileArgs(MaxFiles) }

DirectCalls ==
    { [caller |-> "direct", creds |-> TRUE,
       to |-> PyNone, cc |-> PyNone, bcc |-> PyNone, reply_to |-> PyNone,
       html_body |-> PyNone, plaintext_body |-> PyNone,
       attachments |-> NoneArg, files |-> NoneArg,
       kwargs |-> kw] : kw \in DirectKwargs }

\* basic_publish's return value: True, False or None.
AckVals == { PyInt(1), PyInt(0), PyNone }


-----------------------------------------------------------------------------
(* The state at the moment of the call *)

NoObjects == [k \in {} |-> <<>>]

Init ==
    /\ call \in RecipientCalls \cup UploadCalls \cup DirectCalls
    /\ pc = "start"
    /\ to = call.to
    /\ cc = call.cc
    /\ bcc = call.bcc
    /\ reply_to = call.reply_to
    /\ email_uuid = 0
    /\ bucket = FALSE
    /\ s3_folder_name = <<>>
    /\ html_body_key = PyNone
    /\ plaintext_body_key = PyNone
    /\ attachments_keys = <<>>
    /\ idx = 1
    /\ store = NoObjects
    /\ calls = <<>>
    /\ published = <<>>
    /\ uuid_count = 0
    /\ emit_kwargs = NoKwargs
    /\ task_id = 0
    /\ response = PyNone
    /\ emit_outcome = "none"
    /\ emit_result = PyNone
    /\ outcome = "running"
    /\ result = PyNone

sendLocals == <<to, cc, bcc, reply_to, email_uuid, bucket, s3_folder_name,
                html_body_key, plaintext_body_key, attachments_keys, idx>>
emitLocals == <<emit_kwargs, task_id, response, emit_outcome, emit_result>>

\* An exception leaves send_email (nothing in the module catches one).
Raise(kind) ==
    /\ outcome' = kind
    /\ pc' = "done"
    /\ UNCHANGED result

-----------------------------------------------------------------------------
(* send_email, lines 119-138 *)

\* Lines 119-121 with get_s3_email_bucket failing at line 75-77.
MissingCredentials ==
    /\ pc = "start" /\ call.caller = "send_email"
    /\ ~call.creds
    /\ email_uuid' = uuid_count + 1
    /\ uuid_count' = uuid_count + 1
    /\ Raise("MissingCredentialsError")
    /\ UNCHANGED <<call, to, cc, bcc, reply_to, bucket, s3_folder_name,
                   html_body_key, plaintext_body_key, attachments_keys, idx,
                   store, calls, published, emitLocals>>

\* Lines 119-121 with boto.connect_s3 / conn.get_bucket raising.
AcquireRaise ==
    /\ pc = "start" /\ call.caller = "send_email"
    /\ call.creds
    /\ email_uuid' = uuid_count + 1
    /\ uuid_count' = uuid_count + 1
    /\ calls' = Append(calls, S3Call("get_bucket", <<>>, FALSE, FALSE))
    /\ Raise("TransportError")
    /\ UNCHANGED <<call, to, cc, bcc, reply_to, bucket, s3_folder_name,
                   html_body_key, plaintext_body_key, attachments_keys, idx,
                   store, published, emitLocals>>

\* Lines 119-121: the uuid, the bucket, the folder name.
AcquireBucket ==
    /\ pc = "start" /\ call.caller = "send_email"
    /\ call.creds
    /\ email_uuid' = uuid_count + 1
    /\ uuid_count' = uuid_count + 1
    /\ calls' = Append(calls, S3Call("get_bucket", <<>>, FALSE, TRUE))
    /\ bucket' = TRUE
    /\ s3_folder_name' = generate_s3_folder_name(email_uuid')
    /\ pc' = "normalize"
    /\ UNCHANGED <<call, to, cc, bcc, reply_to,
                   html_body_key, plaintext_body_key, attachments_keys, idx,
                   store, published, emitLocals, outcome, result>>

\* Lines 127-130
NormalizeRecipients ==
    /\ pc = "normalize"
    /\ to' = Normalize(to)
    /\ cc' = Normalize(cc)
    /\ bcc' = Normalize(bcc)
    /\ reply_to' = Normalize(reply_to)
    /\ pc' = "validate"
    /\ UNCHANGED <<call, email_uuid, bucket, s3_folder_name,
                   html_body_key, plaintext_body_key, attachments_keys, idx,
                   store, calls, published, uuid_count, emitLocals,
                   outcome, result>>

\* Lines 131-138: either check raises TypeError.
RecipientsRejected ==
    \/ BadRecipient(to) \/ BadRecipient(cc)
    \/ BadRecipient(bcc) \/ BadRecipient(reply_to)
    \/ ~AnyRecipient(to, cc, bcc, reply_to)

ValidateRaise ==
    /\ pc = "validate"
    /\ RecipientsRejected
    /\ Raise("TypeError")
    /\ UNCHANGED <<call, sendLocals, store, calls, published, uuid_count,
                   emitLocals>>

ValidateOK ==
    /\ pc = "validate"
    /\ ~RecipientsRejected
    /\ pc' = "html"
    /\ UNCHANGED <<call, sendLocals, store, calls, published, uuid_count,
                   emitLocals, outcome, result>>

-----------------------------------------------------------------------------
(* send_email, lines 140-163: the uploads *)

uploadFrame == <<call, to, cc, bcc, reply_to, email_uuid, bucket,
                 s3_folder_name, published, uuid_count, emitLocals,
                 outcome, result>>

\* Lines 140-143
UploadHtml ==
    /\ pc = "html"
    /\ IF Truthy(call.html_body)
       THEN LET key == generate_s3_content_key(s3_folder_name, HTML, <<>>)
            IN  /\ html_body_key' = PyStr(key)
                /\ store' = upload_string_to_s3(store, key, call.html_body.s)
                /\ calls' = Append(calls, S3Call("upload", key, TRUE, TRUE))
       ELSE UNCHANGED <<html_body_key, store, calls>>
    /\ pc' = "plaintext"
    /\ UNCHANGED <<uploadFrame, plaintext_body_key, attachments_keys, idx>>

\* Lines 145-148
UploadPlaintext ==
    /\ pc = "plaintext"
    /\ IF Truthy(call.plaintext_body)
       THEN LET key == generate_s3_content_key(s3_folder_name, PLAINTEXT, <<>>)
            IN  /\ plaintext_body_key' = PyStr(key)
                /\ store' = upload_string_to_s3(store, key, call.plaintext_body.s)
                /\ calls' = Append(calls, S3Call("upload", key, TRUE, TRUE))
       ELSE UNCHANGED <<plaintext_body_key, store, calls>>
    /\ pc' = "attachments"
    /\ UNCHANGED <<uploadFrame, html_body_key, attachments_keys, idx>>

\* Lines 152-156: one turn of the loop over `attachments`.
UploadAttachment_Prepend ==
    /\ pc = "attachments"
    /\ ArgTruthy(call.attachments) /\ idx <= Len(call.attachments.entries)
    /\ LET a == call.attachments.entries[idx]
           attachment_key == generate_s3_content_key(s3_folder_name, ATTACHMENT,
                                                     a.filename)
       IN  /\ store' = upload_string_to_s3(store, attachment_key, a.content)
           /\ calls' = Append(calls, S3Call("upload", attachment_key,
                                            Len(a.content) > 0, TRUE))
           /\ attachments_keys' = <<attachment_key>> \o attachments_keys
    /\ idx' = idx + 1
    /\ UNCHANGED <<uploadFrame, pc, html_body_key, plaintext_body_key>>

UploadAttachment ==
    /\ pc = "attachments"
    /\ ArgTruthy(call.attachments) /\ idx <= Len(call.attachments.entries)
    /\ LET a == call.attachments.entries[idx]
           attachment_key == generate_s3_content_key(s3_folder_name, ATTACHMENT,
                                                     a.filename)
       IN  /\ store' = upload_string_to_s3(store, attachment_key, a.content)
           /\ calls' = Append(calls, S3Call("upload", attachment_key,
                                            Len(a.content) > 0, TRUE))
           /\ attachments_keys' = Append(attachments_keys, attachment_key)
    /\ idx' = idx + 1
    /\ UNCHANGED <<uploadFrame, pc, html_body_key, plaintext_body_key>>

\* Line 151 false, or the loop of line 152 exhausted.
AttachmentsDone ==
    /\ pc = "attachments"
    /\ ~(ArgTruthy(call.attachments) /\ idx <= Len(call.attachments.entries))
    /\ pc' = "files"
    /\ idx' = 1
    /\ UNCHANGED <<uploadFrame, html_body_key, plaintext_body_key,
                   attachments_keys, store, calls>>

\* Lines 158-163: one turn of the loop over `files`.
UploadFile ==
    /\ pc = "files"
    /\ ArgTruthy(call.files) /\ idx <= Len(call.files.entries)
    /\ LET filepath == call.files.entries[idx]
           filename == Last(split(filepath, "/"))
           attachment_key == generate_s3_content_key(s3_folder_name, ATTACHMENT,
                                                     filename)
       IN  /\ store' = upload_file_to_s3(store, attachment_key, filepath)
           /\ calls' = Append(calls, S3Call("upload", attachment_key,
                                            Len(filepath) > 0, TRUE))
           /\ attachments_keys' = Append(attachments_keys, attachment_key)
    /\ idx' = idx + 1
    /\ UNCHANGED <<uploadFrame, pc, html_body_key, plaintext_body_key>>

\* Line 157 false, or the loop of line 158 exhausted.
FilesDone ==
    /\ pc = "files"
    /\ ~(ArgTruthy(call.files) /\ idx <= Len(call.files.entries))
    /\ pc' = "build"
    /\ UNCHANGED <<uploadFrame, html_body_key, plaintext_body_key,
                   attachments_keys, idx, store, calls>>

\* The key the statement at pc is about to write, if it writes one.
PendingWrite ==
    CASE pc = "html" ->
           [has |-> Truthy(call.html_body),
            key |-> generate_s3_content_key(s3_folder_name, HTML, <<>>)]
      [] pc = "plaintext" ->
           [has |-> Truthy(call.plaintext_body),
            key |-> generate_s3_content_key(s3_folder_name, PLAINTEXT, <<>>)]
      [] pc = "attachments" /\ ArgTruthy(call.attachments)
                            /\ idx <= Len(call.attachments.entries) ->
           [has |-> Len(call.attachments.entries[idx].content) > 0,
            key |-> generate_s3_content_key(s3_folder_name, ATTACHMENT,
                        call.attachments.entries[idx].filename)]
      [] pc = "files" /\ ArgTruthy(call.files)
                      /\ idx <= Len(call.files.entries) ->
           [has |-> Len(call.files.entries[idx]) > 0,
            key |-> generate_s3_content_key(s3_folder_name, ATTACHMENT,
                        Last(split(call.files.entries[idx], "/")))]
      [] OTHER -> [has |-> FALSE, key |-> <<>>]

\* Key.set_contents_from_string / set_contents_from_filename raising (lines
\* 101, 108): the exception leaves send_email, nothing is undone.
UploadRaise_Swallow ==
    /\ PendingWrite.has
    /\ calls' = Append(calls, S3Call("upload", PendingWrite.key, FALSE, FALSE))
    /\ pc' = "build"
    /\ UNCHANGED <<uploadFrame, html_body_key, plaintext_body_key,
                   attachments_keys, idx, store>>

UploadRaise ==
    /\ PendingWrite.has
    /\ calls' = Append(calls, S3Call("upload", PendingWrite.key, FALSE, FALSE))
    /\ Raise("TransportError")
    /\ UNCHANGED <<call, sendLocals, store, published, uuid_count, emitLocals>>

-----------------------------------------------------------------------------
(* send_email, lines 165-187, and emit_microservice_event *)

\* Lines 165-180.  from_email, subject, headers, user_id, resource_type and
\* resource_id are passed through; the call leaves them at their default.
event_data ==
    [from_email |-> PyNone,
     to |-> to,
     cc |-> cc,
     bcc |-> bcc,
     reply_to |-> reply_to,
     subject |-> PyNone,
     plaintext_body_key |-> plaintext_body_key,
     html_body_key |-> html_body_key,
     attachments_keys |-> PyList(attachments_keys),
     headers |-> PyNone,
     user_id |-> PyNone,
     resource_type |-> PyNone,
     resource_id |-> PyNone,
     task_id |-> PyStr(UuidStr(email_uuid))]

\* Line 187: emit_microservice_event(EMAIL_EVENT_TYPE, **event_data) is entered.
BuildEvent ==
    /\ pc = "build"
    /\ emit_kwargs' = event_data
    /\ pc' = "emit_connect"
    /\ UNCHANGED <<call, sendLocals, store, calls, published, uuid_count,
                   task_id, response, emit_outcome, emit_result,
                   outcome, result>>

\* emit_microservice_event called by other code, with its own kwargs.
DirectCall ==
    /\ pc = "start" /\ call.caller = "direct"
    /\ emit_kwargs' = call.kwargs
    /\ pc' = "emit_connect"
    /\ UNCHANGED <<call, sendLocals, store, calls, published, uuid_count,
                   task_id, response, emit_outcome, emit_result,
                   outcome, result>>

\* Lines 37-40 with pika raising (no broker, timeout).
EmitConnectRaise ==
    /\ pc = "emit_connect"
    /\ calls' = Append(calls, BrokerCall("connect", FALSE))
    /\ emit_outcome' = "TransportError"
    /\ Raise("TransportError")
    /\ UNCHANGED <<call, sendLocals, store, published, uuid_count,
                   emit_kwargs, task_id, response, emit_result>>

\* Lines 30-40: connection, channel, queue_declare.
EmitConnect ==
    /\ pc = "emit_connect"
    /\ calls' = calls \o <<BrokerCall("connect", TRUE),
                           BrokerCall("queue_declare", TRUE)>>
    /\ pc' = "emit_publish"
    /\ UNCHANGED <<call, sendLocals, store, published, uuid_count,
                   emitLocals, outcome, result>>

\* Lines 42-61: the envelope is built and handed to basic_publish, whose
\* return value is the broker client's.
EmitPublish ==
    /\ pc = "emit_publish"
    /\ task_id' = uuid_count + 1
    /\ uuid_count' = uuid_count + 1
    /\ published' = Append(published,
                           ujson_dumps(Message(task_id', emit_kwargs)))
    /\ calls' = Append(calls, BrokerCall("basic_publish", TRUE))
    /\ response' \in AckVals
    /\ pc' = "emit_check"
    /\ UNCHANGED <<call, sendLocals, store, emit_kwargs, emit_outcome,
                   emit_result, outcome, result>>

\* Lines 63-67
EmitRaise ==
    /\ pc = "emit_check"
    /\ NotResponse(response)
    /\ emit_outcome' = "EmitEventException"
    /\ Raise("EmitEventException")
    /\ UNCHANGED <<call, sendLocals, store, calls, published, uuid_count,
                   emit_kwargs, task_id, response, emit_result>>

\* Line 69: `return response`; a direct caller receives it.
EmitReturn ==
    /\ pc = "emit_check"
    /\ ~NotResponse(response)
    /\ emit_outcome' = "returned"
    /\ emit_result' = response
    /\ IF call.caller = "direct"
       THEN /\ outcome' = "returned"
            /\ result' = response
            /\ pc' = "done"
       ELSE /\ pc' = "return"
            /\ UNCHANGED <<outcome, result>>
    /\ UNCHANGED <<call, sendLocals, store, calls, published, uuid_count,
                   emit_kwargs, task_id, response>>

\* Line 187 is an expression statement: send_email falls off its end.
SendEmailReturn ==
    /\ pc = "return"
    /\ result' = PyNone
    /\ outcome' = "returned"
    /\ pc' = "done"
    /\ UNCHANGED <<call, sendLocals, store, calls, published, uuid_count,
                   emitLocals>>

Next ==
    \/ MissingCredentials
    \/ AcquireRaise
    \/ AcquireBucket
    \/ NormalizeRecipients
    \/ ValidateRaise
    \/ ValidateOK
    \/ UploadHtml
    \/ UploadPlaintext
    \/ UploadAttachment
    \/ AttachmentsDone
    \/ UploadFile
    \/ FilesDone
    \/ UploadRaise
    \/ BuildEvent
    \/ DirectCall
    \/ EmitConnectRaise
    \/ EmitConnect
    \/ EmitPublish
    \/ EmitRaise
    \/ EmitReturn
    \/ SendEmailReturn

Spec == Init /\ [][Next]_vars

-----------------------------------------------------------------------------
(* Vocabulary of the properties *)

IsSend == call.caller = "send_email"
Done == pc = "done"

\* The four recipient arguments as the caller passed them.
RecipArgs == <<call.to, call.cc, call.bcc, call.reply_to>>

\* None, the empty string or the empty list.
EmptyOrAbsent(v) == v = PyNone \/ v = PyStr(<<>>) \/ v = PyList(<<>>)

\* Neither None, nor a string, nor a list.
Malformed(v) == v.tag \notin {"none", "str", "list"}

IsUpload(c) == c.svc = "s3" /\ c.op = "upload"
UploadCallsMade == SelectSeq(calls, IsUpload)
KeysOf(cs) == [i \in 1..Len(cs) |-> cs[i].key]

NumAttachments ==
    IF ArgTruthy(call.attachments) THEN Len(call.attachments.entries) ELSE 0
NumFiles == IF ArgTruthy(call.files) THEN Len(call.files.entries) ELSE 0

\* The keys the claim expects: attachments in input order, then files.
ExpectedAttachmentKeys ==
    [i \in 1..(NumAttachments + NumFiles) |->
        IF i <= NumAttachments
        THEN generate_s3_content_key(s3_folder_name, ATTACHMENT,
                                     call.attachments.entries[i].filename)
        ELSE generate_s3_content_key(s3_folder_name, ATTACHMENT,
                 Last(split(call.files.entries[i - NumAttachments], "/")))]

ExpectedBodyKeys ==
    (IF Truthy(call.html_body)
     THEN <<generate_s3_content_key(s3_folder_name, HTML, <<>>)>> ELSE <<>>)
    \o (IF Truthy(call.plaintext_body)
        THEN <<generate_s3_content_key(s3_folder_name, PLAINTEXT, <<>>)>>
        ELSE <<>>)

\* The non-null keys an event carries.
EventKeys(m) ==
    (IF m.kwargs.html_body_key.tag = "str"
     THEN {m.kwargs.html_body_key.s} ELSE {})
    \cup (IF m.kwargs.plaintext_body_key.tag = "str"
          THEN {m.kwargs.plaintext_body_key.s} ELSE {})
    \cup {m.kwargs.attachments_keys.items[i] :
             i \in 1..Len(m.kwargs.attachments_keys.items)}

-----------------------------------------------------------------------------
(* The claims *)

\* C1 (as claimed): a send_email call whose four recipient fields are all
\* None, an empty string or an empty list is rejected with TypeError: once
\* the bucket is acquired and the checks of lines 131-138 have run, the call
\* has ended in TypeError.
C1_AllEmptyRaisesTypeError ==
    (IsSend /\ bucket /\ pc \notin {"normalize", "validate"}
            /\ \A i \in 1..4 : EmptyOrAbsent(RecipArgs[i]))
        => outcome = "TypeError"

\* C2 (as claimed): when send_email raises the recipient TypeError, it has
\* called neither the object store (bucket acquisition included) nor the
\* broker.
C2_ValidationBeforeAnyCall ==
    (IsSend /\ outcome = "TypeError") => calls = <<>>

\* C3 (as claimed): every published envelope has kwargs.task_id equal to
\* its top-level id, whatever kwargs the caller passed.
C3_TaskIdEqualsId ==
    \A i \in 1..Len(published) :
        published[i].kwargs.task_id = PyStr(published[i].id)

\* C4 (as claimed): when send_email returns, its return value is the
\* truthy acknowledgment emit_microservice_event returned.
C4_ReturnsPublishResult ==
    (IsSend /\ outcome = "returned")
        => (result = emit_result /\ Truthy(result))

\* C5 (as claimed): a send_email call in which a recipient field is neither
\* None, a string nor a list is rejected with TypeError, also when that
\* value is falsy: once the bucket is acquired and the checks of lines
\* 131-138 have run, the call has ended in TypeError.
C5_AnyMalformedRaisesTypeError ==
    (IsSend /\ bucket /\ pc \notin {"normalize", "validate"}
            /\ \E i \in 1..4 : Malformed(RecipArgs[i]))
        => outcome = "TypeError"

\* C6: emit_microservice_event returns only a truthy acknowledgment, the
\* broker's; a falsy one ends in EmitEventException; in both outcomes
\* basic_publish was called exactly once.
C6_EmitNeverReturnsFalsy ==
    LET publishes == SelectSeq(calls, LAMBDA c : c.op = "basic_publish")
    IN  /\ emit_outcome = "returned"
             => /\ Truthy(emit_result)
                /\ emit_result = response
                /\ Len(publishes) = 1 /\ Len(published) = 1
        /\ emit_outcome = "EmitEventException"
             => /\ ~Truthy(response)
                /\ Len(publishes) = 1 /\ Len(published) = 1
        /\ (pc \in {"return", "done"} /\ published # <<>> /\ ~Truthy(response))
             => emit_outcome = "EmitEventException"

\* C6 witness: a falsy acknowledgment raised after the one publish.
C6_Witness ==
    /\ emit_outcome = "EmitEventException"
    /\ Len(published) = 1
    /\ response = PyInt(0)

\* C7: a send_email call publishes at most one event; the publish comes
\* after every upload of the call, and no object-store call follows it; a
\* call that ended in a validation, credentials or upload error published
\* nothing; a call that returned or ended in EmitEventException published
\* one; every object an upload wrote is still in the bucket.
C7_AtMostOnePublishNoRollback ==
    IsSend =>
        /\ Len(published) <= 1
        /\ published # <<>> =>
              /\ pc \in {"emit_check", "return", "done"}
              /\ Len(UploadCallsMade)
                   = Len(ExpectedBodyKeys) + NumAttachments + NumFiles
              /\ calls[Len(calls)].op = "basic_publish"
        /\ pc \in {"emit_check", "return"} => Len(published) = 1
        /\ outcome \in {"returned", "EmitEventException"} => Len(published) = 1
        /\ outcome \in {"TypeError", "MissingCredentialsError"}
              => published = <<>>
        /\ (\E i \in 1..Len(calls) : ~calls[i].ok) => published = <<>>
        /\ \A i \in 1..Len(calls) :
              (IsUpload(calls[i]) /\ calls[i].wrote /\ calls[i].ok)
                  => calls[i].key \in DOMAIN store

\* C7 witness: an upload failed after another had written; nothing was
\* published and the written object is still there.
C7_Witness ==
    /\ IsSend /\ outcome = "TransportError"
    /\ Len(calls) >= 3
    /\ IsUpload(calls[Len(calls)]) /\ ~calls[Len(calls)].ok
    /\ store # NoObjects
    /\ published = <<>>

\* C8: the published attachments_keys is one key per entry of attachments,
\* in order, then one per entry of files, in order; the uploads were called
\* in that order, after the HTML body and then the plaintext body.
C8_AttachmentKeysOrdered ==
    (IsSend /\ published # <<>>) =>
        /\ published[1].kwargs.attachments_keys = PyList(ExpectedAttachmentKeys)
        /\ Len(published[1].kwargs.attachments_keys.items)
             = NumAttachments + NumFiles
        /\ KeysOf(UploadCallsMade) = ExpectedBodyKeys \o ExpectedAttachmentKeys

\* C8 witness: an event for two attachments of different names and a file.
C8_Witness ==
    /\ IsSend /\ published # <<>>
    /\ NumAttachments = 2 /\ NumFiles >= 1
    /\ call.attachments.entries[1].filename # call.attachments.entries[2].filename
    /\ Truthy(call.html_body) /\ Truthy(call.plaintext_body)

\* C9 (as claimed): every non-null key of the published event names an
\* object written to the bucket during the call.
C9_EventKeysWereWritten ==
    (IsSend /\ published # <<>>)
        => \A k \in EventKeys(published[1]) : k \in DOMAIN store

\* C10 (as claimed): within one send_email call no two uploads write the
\* same key, and attachments_keys holds no key twice.
C10_UploadKeysDistinct ==
    IsSend =>
        /\ \A i, j \in 1..Len(UploadCallsMade) :
              (i # j /\ UploadCallsMade[i].wrote /\ UploadCallsMade[j].wrote)
                  => UploadCallsMade[i].key # UploadCallsMade[j].key
        /\ \A i, j \in 1..Len(attachments_keys) :
              i # j => attachments_keys[i] # attachments_keys[j]

=============================================================================
